---- MODULE Spec2Model ----
(***************************************************************************)
(* Model of the BanglaEbook reader: the SQLite content store               *)
(* (db/database.ts: getAllBooks, getChaptersByBookId, getAllAuthors, the   *)
(* shared connection handle) and the library controller of App.tsx (init,  *)
(* runFullInit, the fetch-books effect with its debounce timer, the        *)
(* favourite and bookmark toggles, the persist effect).                    *)
(*                                                                         *)
(* Strings are sequences of one-character strings.  An optional JavaScript *)
(* value (a property that may be undefined) is a sequence of length 0      *)
(* (undefined) or 1 (the value).                                           *)
(***************************************************************************)
EXTENDS Integers, Sequences, FiniteSets, TLC

VARIABLES
    \* the database file and the store (db/database.ts)
    booksTable,      \* rows of table books, in storage (rowid) order
    chaptersTable,   \* rows of table chapters, in storage order
    tablesExist,     \* the database file holds the tables books and chapters
    fileExists,      \* books.db exists in the app's SQLite directory
    fileValid,       \* books.db is an SQLite database
    dbInstance,      \* _dbInstance: "null", "open" or "closing" (closeAsync awaited)
    call,            \* the last direct store call: operation, arguments, outcome
    \* AsyncStorage
    storage,         \* key -> None or Some(JSON text)
    \* React state of App
    dbReady, dbMissing, importing,
    books, authors, loadingState, totalPages,
    currentView, selectedAuthor, searchTerm, currentPage, librarySubView,
    favorites, bookmarks, settings,
    \* asynchronous activities of App
    timer,           \* the setTimeout of the fetch effect and what its closure holds
    fetchTask,       \* the timer callbacks that are running
    initTask,        \* init(), a runFullInit started by a button, or handleImport
    \* React state of App: the reader
    selectedBook,    \* None or Some(book): the Reader is shown when it is set
    currentChapterIdx, chapters, loadingChapters,
    selectTask,      \* the handleBookSelect calls that are running
    lastSelect,      \* history: how the last handleBookSelect ended
    \* AsyncStorage.setItem
    storageFails,    \* the keys whose setItem is rejected
    lastPersist,     \* history: what the persist effect did at the last change
                     \* of a preference
    \* getDb and closeDatabaseConnection, await by await (SpecConn)
    connTask,        \* the position of each caller of getDb and of the closer
    openConnections, \* connections opened and not closed, as SpecConn counts them
    \* history
    hist,            \* the last toggle, how often it was repeated, the state before it
    lastFetch,       \* how the last timer callback ended
    budget           \* user actions left

storeVars == <<booksTable, chaptersTable, tablesExist, dbInstance, call>>

envVars ==
    <<booksTable, chaptersTable, tablesExist, fileExists, fileValid, dbInstance, call,
      storage>>

appVars ==
    <<dbReady, dbMissing, importing, books, authors, loadingState, totalPages,
      currentView, selectedAuthor, searchTerm, currentPage, librarySubView,
      favorites, bookmarks, settings, timer, fetchTask, initTask, hist,
      lastFetch, budget,
      selectedBook, currentChapterIdx, chapters, loadingChapters, selectTask,
      lastSelect, storageFails, lastPersist, connTask, openConnections>>

readerVars ==
    <<selectedBook, currentChapterIdx, chapters, loadingChapters, selectTask,
      lastSelect>>

connVars == <<connTask, openConnections>>

vars ==
    <<booksTable, chaptersTable, tablesExist, fileExists, fileValid, dbInstance, call,
      storage,
      dbReady, dbMissing, importing, books, authors, loadingState, totalPages,
      currentView, selectedAuthor, searchTerm, currentPage, librarySubView,
      favorites, bookmarks, settings, timer, fetchTask, initTask, hist,
      lastFetch, budget,
      selectedBook, currentChapterIdx, chapters, loadingChapters, selectTask,
      lastSelect, storageFails, lastPersist, connTask, openConnections>>

-----------------------------------------------------------------------------
(* Bounds of the model *)

MaxBooks == 4        \* book ids 1..MaxBooks may be in the books table
MaxPage == 3         \* page arguments 0..MaxPage
MaxLimit == 2        \* limit arguments 0..MaxLimit
MaxChapters == 3     \* rows of the chapters table
MaxChapterNo == 2    \* chapter_number values 1..MaxChapterNo
LibrarySize == 2     \* books of the library the application runs on
MaxToggleId == 2     \* book ids 1..MaxToggleId are toggled
MaxChapterIdx == 1   \* chapter indexes 0..MaxChapterIdx are bookmarked
MaxInFlight == 1     \* timer callbacks running at a time
MaxChain == 2        \* the count of re-inits behind a fetch saturates here
MaxUserActions == 2  \* user actions in a run
MaxSelects == 2      \* handleBookSelect calls running at a time
MaxReaderActions == 4  \* user actions in a run of the reader
MaxCallers == 3          \* callers of getDb at a time
MaxConnections == 3      \* connections opened or being opened at a time
MaxPersistActions == 3  \* user actions in a run of the persist effect
MaxExtraBooks == 1      \* books of the paged library beyond one page
MaxPagingActions == 3   \* user actions in a run of the paged library

-----------------------------------------------------------------------------
(* JavaScript values *)

None == <<>>
Some(v) == <<v>>
IsSome(o) == Len(o) = 1
Val(o) == o[1]

\* x || d for an optional number: undefined and 0 are falsy
OrDefault(o, d) == IF IsSome(o) /\ Val(o) # 0 THEN Val(o) ELSE d

\* if (s) for an optional string: undefined and "" are falsy
TruthyStr(o) == IsSome(o) /\ Len(Val(o)) > 0

\* if (b) for an optional boolean
TruthyBool(o) == IsSome(o) /\ Val(o) = TRUE

Range(s) == {s[i] : i \in 1..Len(s)}

Min(a, b) == IF a <= b THEN a ELSE b
Max(a, b) == IF a >= b THEN a ELSE b

\* Math.floor in the place of Math.ceil
FloorDiv(a, b) == a \div b

\* Math.ceil(a / b) for a >= 0, b >= 1
CeilDiv(a, b) == (a + b - 1) \div b

\* all orderings of the elements of a sequence
Perms(s) ==
    LET n == Len(s)
    IN  {[i \in 1..n |-> s[f[i]]] :
            f \in {g \in [1..n -> 1..n] : \A i, j \in 1..n : i # j => g[i] # g[j]}}

-----------------------------------------------------------------------------
(* SQLite: LIKE, LIMIT/OFFSET *)

\* SQLite's LIKE folds the case of ASCII letters
Lower(c) == IF c = "A" THEN "a" ELSE IF c = "B" THEN "b" ELSE c

\* s LIKE pat: % matches any run of characters, _ any one character,
\* every other character itself up to ASCII case
RECURSIVE LikeMatch(_, _)
LikeMatch(pat, s) ==
    IF pat = <<>> THEN s = <<>>
    ELSE IF Head(pat) = "%"
         THEN LikeMatch(Tail(pat), s) \/ (s # <<>> /\ LikeMatch(pat, Tail(s)))
         ELSE /\ s # <<>>
              /\ (Head(pat) = "_" \/ Lower(Head(pat)) = Lower(Head(s)))
              /\ LikeMatch(Tail(pat), Tail(s))

\* column LIKE ? bound to `%${term}%`
LikeTerm(term, column) == LikeMatch(<<"%">> \o term \o <<"%">>, column)

\* rows LIMIT limit OFFSET offset (a negative LIMIT is no limit, a negative
\* OFFSET is 0)
LimitOffset(rows, limit, offset) ==
    LET n == Len(rows)
        lo == Max(0, offset)
        hi == IF limit < 0 THEN n ELSE Min(n, lo + limit)
    IN  SubSeq(rows, lo + 1, hi)

-----------------------------------------------------------------------------
(* The content of the database file *)

BookIds == 1..MaxBooks

\* The catalogue the books tables are drawn from: the row of book id i
TitleOf(i) ==
    CASE i % 4 = 1 -> <<"a", "b">>
      [] i % 4 = 2 -> <<"A">>
      [] i % 4 = 3 -> <<"b">>
      [] OTHER     -> <<"b", "a">>

AuthorOf(i) ==
    CASE i % 4 = 1 -> <<"x">>
      [] i % 4 = 2 -> <<"y">>
      [] i % 4 = 3 -> <<"x", "y">>
      [] OTHER     -> <<"y">>

BookRow(i) == [book_id |-> i, title |-> TitleOf(i), author |-> AuthorOf(i)]

RECURSIVE RowsOf(_, _)
\* the rows of the ids in S, by ascending id, ids above n left out
RowsOf(S, n) ==
    IF n = 0 THEN <<>>
    ELSE IF n \in S THEN Append(RowsOf(S, n - 1), BookRow(n))
         ELSE RowsOf(S, n - 1)

BooksTables == {RowsOf(S, MaxBooks) : S \in SUBSET BookIds}

ChapterTitles == {None, Some(<<"t">>)}

ChapterRows ==
    [book_id : 1..2, chapter_number : 1..MaxChapterNo, chapter_title : ChapterTitles]

\* chapter_id is the position of the row
ChaptersTables ==
    UNION {
        {[i \in 1..n |-> [chapter_id |-> i,
                          book_id |-> f[i].book_id,
                          chapter_number |-> f[i].chapter_number,
                          chapter_title |-> f[i].chapter_title]] :
            f \in [1..n -> ChapterRows]} :
        n \in 0..MaxChapters}

-----------------------------------------------------------------------------
(* db/database.ts: getAllBooks *)

DefaultPage == 1
DefaultLimit == 50

\* the WHERE clause getAllBooks builds from params, on one row
WhereClause(params, row) ==
    /\ TruthyStr(params.search) =>
           \/ LikeTerm(Val(params.search), row.title)
           \/ LikeTerm(Val(params.search), row.author)
    /\ TruthyStr(params.title) => LikeTerm(Val(params.title), row.title)
    /\ TruthyStr(params.author) => LikeTerm(Val(params.author), row.author)
    /\ (IsSome(params.ids) /\ Len(Val(params.ids)) > 0) =>
           row.book_id \in Range(Val(params.ids))

\* SELECT ... FROM books WHERE ...: the matching rows in storage order
Matching(table, params) == SelectSeq(table, LAMBDA row : WhereClause(params, row))

\* the orders the data query may deliver the matching rows in, before
\* LIMIT/OFFSET: any order under ORDER BY RANDOM(), storage order otherwise
DataOrders(table, params) ==
    IF TruthyBool(params.random) THEN Perms(Matching(table, params))
    ELSE {Matching(table, params)}

PageOf(params) == OrDefault(params.page, DefaultPage)
LimitOf(params) == OrDefault(params.limit, DefaultLimit)
\* page * limit in the place of (page - 1) * limit
OffsetOfNextPage(params) == PageOf(params) * LimitOf(params)

OffsetOf(params) == (PageOf(params) - 1) * LimitOf(params)

\* rows.map(...): the Book objects (cover_url left out)
ToBook(row) == [book_id |-> row.book_id, title |-> row.title, author |-> row.author]

\* the value getAllBooks returns when the data query delivers `ordered`
GetAllBooksResponse(table, params, ordered) ==
    LET total == Len(Matching(table, params))
        rows == LimitOffset(ordered, LimitOf(params), OffsetOf(params))
    IN  [data |-> [i \in 1..Len(rows) |-> ToBook(rows[i])],
         pagination |-> [total |-> total,
                         page |-> PageOf(params),
                         limit |-> LimitOf(params),
                         totalPages |-> CeilDiv(total, LimitOf(params))]]

-----------------------------------------------------------------------------
(* db/database.ts: getChaptersByBookId *)

\* rows.map(...): title falls back to `Chapter ${chapter_number}`
ToChapter(row) ==
    [chapter_id |-> row.chapter_id,
     book_id |-> row.book_id,
     chapter_number |-> row.chapter_number,
     title |-> IF TruthyStr(row.chapter_title) THEN Val(row.chapter_title)
               ELSE <<"Chapter", row.chapter_number>>]

ChaptersOf(table, bookId) == SelectSeq(table, LAMBDA row : row.book_id = bookId)

\* the query without its ORDER BY: storage order
ChapterOrdersUnsorted(table, bookId) == {ChaptersOf(table, bookId)}

\* ORDER BY chapter_number ASC: every order of the selected rows in which
\* chapter_number never decreases (rows with equal keys come in any order)
ChapterOrders(table, bookId) ==
    {s \in Perms(ChaptersOf(table, bookId)) :
        \A i \in 1..(Len(s) - 1) : s[i].chapter_number <= s[i + 1].chapter_number}

GetChaptersResponse(ordered) == [i \in 1..Len(ordered) |-> ToChapter(ordered[i])]

-----------------------------------------------------------------------------
(* db/database.ts: getAllAuthors *)

AuthorNames(table) == {table[i].author : i \in 1..Len(table)}

\* SELECT author, COUNT(*) as book_count FROM books GROUP BY author (the rows
\* as a set: the order of the list is not modelled)
GetAllAuthorsResponse(table) ==
    {[author |-> a,
      book_count |-> Cardinality({i \in 1..Len(table) : table[i].author = a})] :
        a \in AuthorNames(table)}

-----------------------------------------------------------------------------
(* App.tsx: values of the state *)

PageSize == 20

Views == {"home", "all-books", "favorites", "bookmarks", "author_detail"}

DefaultSettings == [fontSize |-> 18, theme |-> "light"]

ToggleIds == 1..MaxToggleId
ChapterIdxs == 0..MaxChapterIdx

\* the bookmark map {}: book id -> None or Some(chapter index)
NoBookmarks == [b \in ToggleIds |-> None]

\* JSON.stringify / JSON.parse of a preference: the text carries the value
JsonStringify(v) == [json |-> v]
JsonParse(text) == text.json

EmptyStorage == [settings |-> None, favorites |-> None, bookmarks |-> None]

\* what an earlier run of the application left in AsyncStorage
SavedStorage ==
    [settings |-> Some(JsonStringify(DefaultSettings)),
     favorites |-> Some(JsonStringify(<<1>>)),
     bookmarks |-> Some(JsonStringify([NoBookmarks EXCEPT ![1] = Some(0)]))]

NoTimer ==
    [pending |-> FALSE, page |-> 1, search |-> <<>>, view |-> "home",
     author |-> None, favorites |-> <<>>, bookmarks |-> NoBookmarks, chain |-> 0]

IdleFetch == [pc |-> "idle", params |-> <<>>, chain |-> 0]

IdleInit == [pc |-> "idle", origin |-> "none", picked |-> "none"]

NoHist == [kind |-> "none", id |-> 0, idx |-> 0, count |-> 0, before |-> <<>>]

NoFetchYet == [kind |-> "none", loadingState |-> "loading"]

\* the chapters of the library the application runs on: chapter_number
\* 1..MaxChapterIdx + 1 of every book, stored book by book
LibraryChapters ==
    [k \in 1..(LibrarySize * (MaxChapterIdx + 1)) |->
        [chapter_id |-> k,
         book_id |-> ((k - 1) \div (MaxChapterIdx + 1)) + 1,
         chapter_number |-> ((k - 1) % (MaxChapterIdx + 1)) + 1,
         chapter_title |-> None]]

IdleSelect == [pc |-> "idle", book |-> None, bookmarks |-> NoBookmarks]

NoSelectYet == [kind |-> "none", book |-> 0, idx |-> 0, saved |-> None]

\* no book is selected: the state of the reader when App is mounted
ReaderClosed ==
    /\ selectedBook = None
    /\ currentChapterIdx = 0
    /\ chapters = <<>>
    /\ loadingChapters = FALSE
    /\ selectTask = [i \in 1..MaxSelects |-> IdleSelect]
    /\ lastSelect = NoSelectYet

\* the keys of AsyncStorage
StorageKeys == {"settings", "favorites", "bookmarks"}

\* every setItem succeeds; no preference has changed yet
WritesSucceed ==
    /\ storageFails = {}
    /\ lastPersist = "none"

\* nobody is inside getDb or closeDatabaseConnection
ConnIdle ==
    /\ connTask = [caller |-> [c \in 1..MaxCallers |-> "idle"], closer |-> "idle"]
    /\ openConnections = 0

\* the application not running: the state of the store specifications
AppNotStarted ==
    /\ ReaderClosed
    /\ WritesSucceed
    /\ ConnIdle
    /\ fileExists = TRUE
    /\ fileValid = TRUE
    /\ storage = EmptyStorage
    /\ dbReady = FALSE /\ dbMissing = FALSE /\ importing = FALSE
    /\ books = <<>> /\ authors = {} /\ loadingState = "loading" /\ totalPages = 1
    /\ currentView = "home" /\ selectedAuthor = None /\ searchTerm = <<>>
    /\ currentPage = 1 /\ librarySubView = "books"
    /\ favorites = <<>> /\ bookmarks = NoBookmarks /\ settings = DefaultSettings
    /\ timer = NoTimer
    /\ fetchTask = [i \in 1..MaxInFlight |-> IdleFetch]
    /\ initTask = IdleInit
    /\ hist = NoHist
    /\ lastFetch = NoFetchYet
    /\ budget = 0

-----------------------------------------------------------------------------
(* The store calls as actions *)

NoSuchTableBooks == "no such table: books"
NoSuchTableChapters == "no such table: chapters"

NoCall == [op |-> "none", params |-> <<>>, ok |-> TRUE, error |-> "", resp |-> <<>>]

PageArgs == {None} \cup {Some(n) : n \in 0..MaxPage}
LimitArgs == {None} \cup {Some(n) : n \in 0..MaxLimit}
SearchArgs == {None, Some(<<>>), Some(<<"a">>), Some(<<"_">>)}
TitleArgs == {None, Some(<<"b">>)}
AuthorArgs == {None, Some(<<"y">>)}
RandomArgs == {None, Some(TRUE)}
IdsArgs == {None, Some(<<>>), Some(<<2>>), Some(<<3, 1>>)}

BookParams ==
    [page : PageArgs, limit : LimitArgs, search : SearchArgs, title : TitleArgs,
     author : AuthorArgs, random : RandomArgs, ids : IdsArgs]

\* getDb: opens the shared handle when there is none
GetDb == dbInstance' = IF dbInstance = "null" THEN "open" ELSE dbInstance

\* getAllBooks(params)
CallGetAllBooks(params) ==
    /\ GetDb
    /\ IF tablesExist
       THEN \E ordered \in DataOrders(booksTable, params) :
                call' = [op |-> "getAllBooks", params |-> params, ok |-> TRUE,
                         error |-> "",
                         resp |-> GetAllBooksResponse(booksTable, params, ordered)]
       ELSE call' = [op |-> "getAllBooks", params |-> params, ok |-> FALSE,
                     error |-> NoSuchTableBooks, resp |-> <<>>]
    /\ UNCHANGED <<booksTable, chaptersTable, tablesExist, fileExists, fileValid, storage>>
    /\ UNCHANGED appVars

\* getChaptersByBookId(bookId)
CallGetChapters(bookId) ==
    /\ GetDb
    /\ IF tablesExist
       THEN \E ordered \in ChapterOrders(chaptersTable, bookId) :
                call' = [op |-> "getChaptersByBookId", params |-> Some(bookId),
                         ok |-> TRUE, error |-> "",
                         resp |-> GetChaptersResponse(ordered)]
       ELSE call' = [op |-> "getChaptersByBookId", params |-> Some(bookId),
                     ok |-> FALSE, error |-> NoSuchTableChapters, resp |-> <<>>]
    /\ UNCHANGED <<booksTable, chaptersTable, tablesExist, fileExists, fileValid, storage>>
    /\ UNCHANGED appVars

InitBooks ==
    /\ booksTable \in BooksTables
    /\ chaptersTable = <<>>
    /\ tablesExist \in BOOLEAN
    /\ dbInstance = "null"
    /\ call = NoCall
    /\ AppNotStarted

\* one call on each drawn database
NextBooks == call = NoCall /\ \E params \in BookParams : CallGetAllBooks(params)

SpecBooks == InitBooks /\ [][NextBooks]_vars

InitChapters ==
    /\ booksTable \in {RowsOf(1..n, MaxBooks) : n \in 0..2}
    /\ chaptersTable \in ChaptersTables
    /\ tablesExist \in BOOLEAN
    /\ dbInstance = "null"
    /\ call = NoCall
    /\ AppNotStarted

NextChapters == call = NoCall /\ \E bookId \in 1..3 : CallGetChapters(bookId)

SpecChapters == InitChapters /\ [][NextChapters]_vars

-----------------------------------------------------------------------------
(* Properties of getAllBooks (checked under SpecBooks) *)

IsBooksCall == call.op = "getAllBooks" /\ call.ok

\* term occurs in s as a substring, ASCII case folded
Substring(term, s) ==
    \E i \in 0..(Len(s) - Len(term)) :
        \A j \in 1..Len(term) : Lower(s[i + j]) = Lower(term[j])

\* the least n with n * k >= a, for k >= 1
CeilOf(a, k) == CHOOSE n \in 0..a : n * k >= a /\ (n = 0 \/ (n - 1) * k < a)

\* C1: a call with ids present and empty returns an empty data page with
\* pagination.total = 0, whatever the other filters are.
C1_EmptyIdsEmptyPage ==
    (IsBooksCall /\ IsSome(call.params.ids) /\ Len(Val(call.params.ids)) = 0) =>
        (Len(call.resp.data) = 0 /\ call.resp.pagination.total = 0)

\* C5 as stated: for every page and limit the caller passes, 0 included, at
\* most limit items come back and totalPages = ceil(total / limit) (the
\* quotient is stated where it is defined, limit >= 1).
C5_PassedLimitBoundsPage ==
    (IsBooksCall /\ IsSome(call.params.page) /\ IsSome(call.params.limit)) =>
        LET k == Val(call.params.limit)
        IN  /\ Len(call.resp.data) <= k
            /\ k >= 1 => call.resp.pagination.totalPages
                             = CeilOf(call.resp.pagination.total, k)

\* C5 amended: for every passed page >= 0 and passed limit >= 1 at most limit
\* items come back and totalPages = ceil(total / limit); a passed limit of 0
\* is taken as omitted: at most DefaultLimit items, totalPages =
\* ceil(total / DefaultLimit).
C5_LimitOrDefaultBoundsPage ==
    (IsBooksCall /\ IsSome(call.params.page) /\ IsSome(call.params.limit)) =>
        LET k == IF Val(call.params.limit) >= 1 THEN Val(call.params.limit)
                 ELSE DefaultLimit
        IN  /\ Len(call.resp.data) <= k
            /\ call.resp.pagination.limit = k
            /\ call.resp.pagination.totalPages
                   = CeilOf(call.resp.pagination.total, k)

\* a second page of limit 2 is returned in full and is the last one
C5_Witness ==
    /\ IsBooksCall
    /\ call.params.page = Some(2)
    /\ call.params.limit = Some(2)
    /\ Len(call.resp.data) = 2
    /\ call.resp.pagination.totalPages = 2

RECURSIVE PagesUpTo(_, _, _)
\* the data of pages 1..n of the query params, one after the other
PagesUpTo(table, params, n) ==
    IF n = 0 THEN <<>>
    ELSE PagesUpTo(table, params, n - 1) \o
         GetAllBooksResponse(table, [params EXCEPT !.page = Some(n)],
                             Matching(table, [params EXCEPT !.page = Some(n)])).data

\* C6: for page >= 1, limit >= 1 and no random order the data is the slice of
\* the filtered list at offset (page-1)*limit, of min(limit, max(0, total -
\* offset)) items, and pages 1..totalPages hold every matching book once.
C6_PageIsSlice ==
    (/\ IsBooksCall
     /\ ~TruthyBool(call.params.random)
     /\ IsSome(call.params.page) /\ Val(call.params.page) >= 1
     /\ IsSome(call.params.limit) /\ Val(call.params.limit) >= 1) =>
        LET k == Val(call.params.limit)
            off == (Val(call.params.page) - 1) * k
            all == Matching(booksTable, call.params)
            total == call.resp.pagination.total
            want == [i \in 1..Min(k, Max(0, Len(all) - off)) |-> ToBook(all[off + i])]
        IN  /\ total = Len(all)
            /\ Len(call.resp.data) = Min(k, Max(0, total - off))
            /\ call.resp.data = want
            /\ PagesUpTo(booksTable, call.params, call.resp.pagination.totalPages)
                   = [i \in 1..Len(all) |-> ToBook(all[i])]

\* the last page of three matching books, limit 2: one item
C6_Witness ==
    /\ IsBooksCall
    /\ ~TruthyBool(call.params.random)
    /\ call.params.page = Some(2)
    /\ call.params.limit = Some(2)
    /\ call.resp.pagination.total = 3
    /\ Len(call.resp.data) = 1
    /\ call.resp.pagination.totalPages = 2

\* a book satisfies every supplied filter, each read as a substring test
SatisfiesFilters(params, book) ==
    /\ IsSome(params.search) =>
           \/ Substring(Val(params.search), book.title)
           \/ Substring(Val(params.search), book.author)
    /\ IsSome(params.title) => Substring(Val(params.title), book.title)
    /\ IsSome(params.author) => Substring(Val(params.author), book.author)
    /\ (IsSome(params.ids) /\ Len(Val(params.ids)) > 0) =>
           book.book_id \in Range(Val(params.ids))

\* C7: every returned book satisfies every supplied filter (search in title
\* or author, title, author as substrings, membership in a non-empty ids
\* list), and pagination.total is the number of books of the store that
\* satisfy them all.
C7_FiltersAreConjoinedSubstrings ==
    IsBooksCall =>
        /\ \A i \in 1..Len(call.resp.data) :
               SatisfiesFilters(call.params, call.resp.data[i])
        /\ call.resp.pagination.total
               = Cardinality({i \in 1..Len(booksTable) :
                                 SatisfiesFilters(call.params, booksTable[i])})

-----------------------------------------------------------------------------
(* Properties of getChaptersByBookId (checked under SpecChapters) *)

IsChaptersCall == call.op = "getChaptersByBookId"

ChapterIdsOf(table, bookId) ==
    {table[i].chapter_id : i \in {j \in 1..Len(table) : table[j].book_id = bookId}}

ReturnsChaptersOfBook ==
    /\ {call.resp[i].chapter_id : i \in 1..Len(call.resp)}
           = ChapterIdsOf(chaptersTable, Val(call.params))
    /\ Len(call.resp) = Cardinality(ChapterIdsOf(chaptersTable, Val(call.params)))
    /\ \A i \in 1..Len(call.resp) : call.resp[i].book_id = Val(call.params)

\* C8 as stated: the result is exactly the chapters of the book, strictly
\* ascending by chapter_number, whatever the chapters table holds.
C8_StrictlyAscending ==
    (IsChaptersCall /\ call.ok) =>
        /\ ReturnsChaptersOfBook
        /\ \A i \in 1..(Len(call.resp) - 1) :
               call.resp[i].chapter_number < call.resp[i + 1].chapter_number

\* C8 amended: the result is exactly the chapters of the book in ascending
\* order of chapter_number: no chapter_number is above the next one, and the
\* order is strict when no two chapters of the book share a chapter_number.
C8_Ascending ==
    (IsChaptersCall /\ call.ok) =>
        /\ ReturnsChaptersOfBook
        /\ \A i \in 1..(Len(call.resp) - 1) :
               call.resp[i].chapter_number <= call.resp[i + 1].chapter_number
        /\ (\A i, j \in 1..Len(call.resp) :
               i # j => call.resp[i].chapter_number # call.resp[j].chapter_number)
           => \A i \in 1..(Len(call.resp) - 1) :
                  call.resp[i].chapter_number < call.resp[i + 1].chapter_number

\* chapters stored out of order come back in order, next to a chapter of
\* another book
C8_Witness ==
    /\ IsChaptersCall /\ call.ok
    /\ Len(call.resp) = 2
    /\ Len(chaptersTable) = 3
    /\ call.resp[1].chapter_number < call.resp[2].chapter_number
    /\ call.resp[1].chapter_id > call.resp[2].chapter_id

BookExists(bookId) == \E i \in 1..Len(booksTable) : booksTable[i].book_id = bookId

\* C9: the call fails with NotFound when no book has the id, and an empty
\* list is returned without error only for a book that exists.
C9_MissingBookIsNotFound ==
    IsChaptersCall =>
        /\ (tablesExist /\ ~BookExists(Val(call.params))) =>
               (~call.ok /\ call.error = "NotFound")
        /\ (call.ok /\ Len(call.resp) = 0) => BookExists(Val(call.params))

-----------------------------------------------------------------------------
(* App.tsx: the effects *)

RECURSIVE SortedSeq(_)
\* the elements of a set of numbers in ascending order
SortedSeq(S) ==
    IF S = {} THEN <<>>
    ELSE LET m == CHOOSE x \in S : \A y \in S : x <= y
         IN  <<m>> \o SortedSeq(S \ {m})

\* Object.keys(bookmarks).map(Number): integer keys come in ascending order
BookmarkKeys(marks) == SortedSeq({b \in DOMAIN marks : IsSome(marks[b])})

\* the three writes that skip the favorites
PersistedWithoutFavorites(favs, marks, sets) ==
    [settings |-> Some(JsonStringify(sets)),
     favorites |-> storage.favorites,
     bookmarks |-> Some(JsonStringify(marks))]

\* the persist effect: the three setItem calls
Persisted(favs, marks, sets) ==
    [settings |-> Some(JsonStringify(sets)),
     favorites |-> Some(JsonStringify(favs)),
     bookmarks |-> Some(JsonStringify(marks))]

\* the three writes, each in turn awaited: the first rejection ends the effect
WrittenInTurn(old, new) ==
    [key \in DOMAIN new |->
        IF "favorites" \in storageFails THEN old[key]
        ELSE IF key = "favorites" THEN new[key]
        ELSE IF "bookmarks" \in storageFails THEN old[key]
        ELSE IF key = "bookmarks" THEN new[key]
        ELSE IF "settings" \in storageFails THEN old[key]
        ELSE new[key]]

\* AsyncStorage after the setItem calls of the effect, none of them awaited:
\* a key whose setItem is rejected keeps its value, the others are written
Written(old, new) ==
    [key \in DOMAIN new |-> IF key \in storageFails THEN old[key] ELSE new[key]]

\* a fetch effect without its cleanup: the timer of the last run stays, and
\* fires in the place of the new one
NotCleared(old, new) == IF old.pending THEN old ELSE new

\* the fetch effect runs again: the cleanup of its last run, clearTimeout(timer),
\* and then setTimeout(..., 500)
Rescheduled(old, new) == new

\* a page reset effect that leaves currentPage alone
KeptPage(resetDeps, page) == page

\* the page reset effect: setCurrentPage(1) when one of its dependencies
\* (searchTerm, currentView, selectedAuthor, librarySubView) has changed
ResetPage(resetDeps, page) == IF resetDeps THEN 1 ELSE page

\* The render after a handler has set state, and the effects it runs.
\*   fetchDeps, persistDeps, resetDeps: a dependency of the fetch effect
\*     (other than currentPage), of the persist effect, of the page reset
\*     effect has changed; page, ls: currentPage and loadingState as the
\*     handler leaves them; chain: the count of re-inits behind the change.
\* The page reset effect sets currentPage to 1; the fetch effect runs when one
\* of its dependencies or currentPage has changed: it clears the timer of its
\* last run, sets loadingState to 'loading' and starts a timer whose closure
\* holds the state of this render. The render in which the page reset effect
\* calls setCurrentPage(1) starts a timer with the old page; the render
\* setCurrentPage(1) causes follows in the same task, before any timer can
\* fire, and its cleanup clears that timer: the action gives the state after
\* both renders.
Render(fetchDeps, persistDeps, resetDeps, page, ls, chain) ==
    LET page2 == ResetPage(resetDeps, page)
    IN  /\ currentPage' = page2
        /\ IF dbReady' /\ (fetchDeps \/ page2 # currentPage)
           THEN /\ loadingState' = "loading"
                /\ timer' = Rescheduled(
                                timer,
                                [pending |-> TRUE, page |-> page2, search |-> searchTerm',
                                 view |-> currentView', author |-> selectedAuthor',
                                 favorites |-> favorites', bookmarks |-> bookmarks',
                                 chain |-> chain])
           ELSE /\ loadingState' = ls
                /\ timer' = timer
        /\ storage' = IF dbReady' /\ persistDeps
                      THEN Written(storage, Persisted(favorites', bookmarks', settings'))
                      ELSE storage
        /\ lastPersist' = IF <<favorites', bookmarks', settings'>> #
                                 <<favorites, bookmarks, settings>>
                          THEN (IF dbReady' /\ persistDeps THEN "issued" ELSE "skipped")
                          ELSE lastPersist

-----------------------------------------------------------------------------
(* App.tsx: the handlers of the library screen *)

dbVars == <<booksTable, chaptersTable, tablesExist, fileExists, fileValid, dbInstance, call>>
readyVars == <<dbReady, dbMissing, importing, authors>>
resultVars == <<books, totalPages>>
prefVars == <<favorites, bookmarks, settings>>

\* the library screen is shown
MainScreen == dbReady /\ ~dbMissing

\* one more user action
User == budget > 0 /\ budget' = budget - 1

SearchTerms == {<<>>, <<"a">>}

\* onChangeText={setSearchTerm}
SetSearchTerm(t) ==
    /\ MainScreen /\ User
    /\ t # searchTerm
    /\ searchTerm' = t
    /\ UNCHANGED <<currentView, selectedAuthor, librarySubView>>
    /\ UNCHANGED <<dbVars, readyVars, resultVars, prefVars, fetchTask, initTask, hist,
                   lastFetch>>
    /\ Render(TRUE, FALSE, TRUE, currentPage, loadingState, 0)
    /\ UNCHANGED <<readerVars, connVars, storageFails>>

\* the tabs Home, Favs, Marks: setCurrentView(view); setCurrentPage(1)
Navigate(view) ==
    /\ MainScreen /\ User
    /\ view # currentView
    /\ currentView' = view
    /\ UNCHANGED <<searchTerm, selectedAuthor, librarySubView>>
    /\ UNCHANGED <<dbVars, readyVars, resultVars, prefVars, fetchTask, initTask, hist,
                   lastFetch>>
    /\ Render(TRUE, FALSE, TRUE, 1, loadingState, 0)
    /\ UNCHANGED <<readerVars, connVars, storageFails>>

\* the tab Library: setCurrentView('all-books'); setLibrarySubView('books');
\* setCurrentPage(1)
NavigateLibrary ==
    /\ MainScreen /\ User
    /\ currentView # "all-books" \/ librarySubView # "books"
    /\ currentView' = "all-books"
    /\ librarySubView' = "books"
    /\ UNCHANGED <<searchTerm, selectedAuthor>>
    /\ UNCHANGED <<dbVars, readyVars, resultVars, prefVars, fetchTask, initTask, hist,
                   lastFetch>>
    /\ Render(currentView # "all-books", FALSE, TRUE, 1, loadingState, 0)
    /\ UNCHANGED <<readerVars, connVars, storageFails>>

\* an author of the list: setSelectedAuthor(a.author);
\* setCurrentView('author_detail')
SelectAuthor(a) ==
    /\ MainScreen /\ User
    /\ currentView = "home" \/ (currentView = "all-books" /\ librarySubView = "authors")
    /\ a \in {r.author : r \in authors}
    /\ selectedAuthor' = Some(a)
    /\ currentView' = "author_detail"
    /\ UNCHANGED <<searchTerm, librarySubView>>
    /\ UNCHANGED <<dbVars, readyVars, resultVars, prefVars, fetchTask, initTask, hist,
                   lastFetch>>
    /\ Render(TRUE, FALSE, TRUE, currentPage, loadingState, 0)
    /\ UNCHANGED <<readerVars, connVars, storageFails>>

\* the back button of the author's page: setCurrentView('home')
BackFromAuthor ==
    /\ MainScreen /\ User
    /\ currentView = "author_detail"
    /\ currentView' = "home"
    /\ UNCHANGED <<searchTerm, selectedAuthor, librarySubView>>
    /\ UNCHANGED <<dbVars, readyVars, resultVars, prefVars, fetchTask, initTask, hist,
                   lastFetch>>
    /\ Render(TRUE, FALSE, TRUE, currentPage, loadingState, 0)
    /\ UNCHANGED <<readerVars, connVars, storageFails>>

\* the Books / Authors switch of the library: setLibrarySubView(v)
SetLibrarySubView(v) ==
    /\ MainScreen /\ User
    /\ currentView = "all-books"
    /\ v # librarySubView
    /\ librarySubView' = v
    /\ UNCHANGED <<searchTerm, selectedAuthor, currentView>>
    /\ UNCHANGED <<dbVars, readyVars, resultVars, prefVars, fetchTask, initTask, hist,
                   lastFetch>>
    /\ Render(FALSE, FALSE, TRUE, currentPage, loadingState, 0)
    /\ UNCHANGED <<readerVars, connVars, storageFails>>

\* a toggle that only ever adds: [...prev, bookId]
ToggledFavoritesAddOnly(prev, bookId) == Append(prev, bookId)

\* a toggle that only ever sets: next[bookId] = chapterIndex
ToggledBookmarksSetOnly(prev, bookId, chapterIndex) ==
    [prev EXCEPT ![bookId] = Some(chapterIndex)]

\* a toggle that starts from an empty map: next = {}, not { ...prev }
ToggledBookmarksFromEmpty(prev, bookId, chapterIndex) ==
    [b \in DOMAIN prev |->
        IF b = bookId /\ prev[b] # Some(chapterIndex) THEN Some(chapterIndex) ELSE None]

\* prev.includes(bookId) ? prev.filter(id => id !== bookId) : [...prev, bookId]
ToggledFavorites(prev, bookId) ==
    IF bookId \in Range(prev) THEN SelectSeq(prev, LAMBDA id : id # bookId)
    ELSE Append(prev, bookId)

\* next[bookId] === chapterIndex ? delete next[bookId] : next[bookId] = chapterIndex
ToggledBookmarks(prev, bookId, chapterIndex) ==
    IF prev[bookId] = Some(chapterIndex) THEN [prev EXCEPT ![bookId] = None]
    ELSE [prev EXCEPT ![bookId] = Some(chapterIndex)]

\* the record of a toggle: a repetition of the last toggle counts up
Toggled(kind, id, idx, before) ==
    IF hist.kind = kind /\ hist.id = id /\ hist.idx = idx /\ hist.count = 1
    THEN [hist EXCEPT !.count = 2]
    ELSE [kind |-> kind, id |-> id, idx |-> idx, count |-> 1, before |-> before]

\* the heart of a book card: toggleFavorite(book.book_id)
ToggleFavorite(bookId) ==
    /\ MainScreen /\ User
    /\ ~(currentView = "all-books" /\ librarySubView = "authors")
    /\ \E i \in 1..Len(books) : books[i].book_id = bookId
    /\ favorites' = ToggledFavorites(favorites, bookId)
    /\ hist' = Toggled("favorite", bookId, 0, favorites)
    /\ UNCHANGED <<bookmarks, settings>>
    /\ UNCHANGED <<searchTerm, selectedAuthor, currentView, librarySubView>>
    /\ UNCHANGED <<dbVars, readyVars, resultVars, fetchTask, initTask, lastFetch>>
    /\ Render(TRUE, TRUE, FALSE, currentPage, loadingState, 0)
    /\ UNCHANGED <<readerVars, connVars, storageFails>>

\* the bookmark button of the reader: toggleBookmark(selectedBook.book_id,
\* currentChapterIdx). The reader is open on a book of the library screen and
\* shows the button on a chapter that exists (chapters[currentChapterIndex]).
ToggleBookmark(bookId, chapterIndex) ==
    /\ MainScreen /\ User
    /\ \E i \in 1..Len(books) : books[i].book_id = bookId
    /\ chapterIndex < Len(ChaptersOf(chaptersTable, bookId))
    /\ bookmarks' = ToggledBookmarks(bookmarks, bookId, chapterIndex)
    /\ hist' = Toggled("bookmark", bookId, chapterIndex, bookmarks)
    /\ UNCHANGED <<favorites, settings>>
    /\ UNCHANGED <<searchTerm, selectedAuthor, currentView, librarySubView>>
    /\ UNCHANGED <<dbVars, readyVars, resultVars, fetchTask, initTask, lastFetch>>
    /\ Render(TRUE, TRUE, FALSE, currentPage, loadingState, 0)
    /\ UNCHANGED <<readerVars, connVars, storageFails>>

-----------------------------------------------------------------------------
(* A store call made by the application *)

DatabaseClosed == "database is closed"
NotADatabase == "file is not a database"

\* err.message.includes('no such table') || err.message.includes('database is closed')
IsConnectionIssue(message) ==
    message \in {NoSuchTableBooks, NoSuchTableChapters, DatabaseClosed}

\* the error of a statement run on the handle getDb returns, "" for none: a
\* handle whose closeAsync has begun is closed; openDatabaseAsync creates an
\* empty database when there is no file
StatementError(noSuchTable) ==
    IF dbInstance = "closing" THEN DatabaseClosed
    ELSE IF dbInstance = "null" /\ ~fileExists THEN noSuchTable
    ELSE IF ~fileValid THEN NotADatabase
    ELSE IF ~tablesExist THEN noSuchTable
    ELSE ""

\* getDb as the application's calls run it
AppGetDb ==
    /\ GetDb
    /\ fileExists' = (fileExists \/ dbInstance = "null")
    /\ fileValid' = (IF dbInstance = "null" /\ ~fileExists THEN TRUE ELSE fileValid)
    /\ UNCHANGED <<booksTable, chaptersTable, tablesExist, call>>

-----------------------------------------------------------------------------
(* App.tsx: runFullInit, one action for each await it resumes from *)

\* setLoadingState('loading') and the call of getItem('reader-settings')
\* const savedSettings = await ...; if (savedSettings) setSettings(JSON.parse(...))
RunFullInitSettings(chain) ==
    /\ settings' = IF IsSome(storage.settings) THEN JsonParse(Val(storage.settings))
                   ELSE settings
    /\ UNCHANGED <<favorites, bookmarks, hist>>
    /\ UNCHANGED <<searchTerm, selectedAuthor, currentView, librarySubView>>
    /\ UNCHANGED <<dbVars, dbReady, dbMissing, authors, resultVars>>
    /\ Render(FALSE, IsSome(storage.settings), FALSE, currentPage, loadingState, chain)

\* const savedFavs = await ...; if (savedFavs) setFavorites(JSON.parse(savedFavs))
\* (the parsed array is a new object: the effects that depend on favorites run)
RunFullInitFavorites(chain) ==
    /\ favorites' = IF IsSome(storage.favorites) THEN JsonParse(Val(storage.favorites))
                    ELSE favorites
    /\ hist' = IF IsSome(storage.favorites) THEN NoHist ELSE hist
    /\ UNCHANGED <<settings, bookmarks>>
    /\ UNCHANGED <<searchTerm, selectedAuthor, currentView, librarySubView>>
    /\ UNCHANGED <<dbVars, dbReady, dbMissing, authors, resultVars>>
    /\ Render(IsSome(storage.favorites), IsSome(storage.favorites), FALSE,
              currentPage, loadingState, chain)

\* const savedMarks = await ...; if (savedMarks) setBookmarks(JSON.parse(savedMarks))
RunFullInitBookmarks(chain) ==
    /\ bookmarks' = IF IsSome(storage.bookmarks) THEN JsonParse(Val(storage.bookmarks))
                    ELSE bookmarks
    /\ hist' = IF IsSome(storage.bookmarks) THEN NoHist ELSE hist
    /\ UNCHANGED <<settings, favorites>>
    /\ UNCHANGED <<searchTerm, selectedAuthor, currentView, librarySubView>>
    /\ UNCHANGED <<dbVars, dbReady, dbMissing, authors, resultVars>>
    /\ Render(IsSome(storage.bookmarks), IsSome(storage.bookmarks), FALSE,
              currentPage, loadingState, chain)

\* const authorList = await getAllAuthors(); setAuthors(authorList);
\* setDbReady(true); setDbMissing(false), and what the caller does next with
\* loadingState (ls); threw: getAllAuthors has thrown, nothing is set
RunFullInitAuthors(threw, ls) ==
    /\ AppGetDb
    /\ UNCHANGED <<prefVars, hist, resultVars>>
    /\ UNCHANGED <<searchTerm, selectedAuthor, currentView, librarySubView>>
    /\ IF threw
       THEN /\ UNCHANGED <<authors, dbReady, dbMissing>>
            /\ UNCHANGED <<currentPage, loadingState, timer, storage, lastPersist>>
       ELSE /\ authors' = GetAllAuthorsResponse(booksTable)
            /\ dbReady' = TRUE
            /\ dbMissing' = FALSE
            /\ Render(~dbReady, ~dbReady, FALSE, currentPage, ls, 0)

-----------------------------------------------------------------------------
(* App.tsx: init, the buttons that call runFullInit, handleImport *)

\* a check that finds a file whether or not there is one
CheckDatabaseExistsAlways == TRUE

\* checkDatabaseExists(): getInfoAsync(dbPath).exists
CheckDatabaseExists == fileExists

\* init resumes from await checkDatabaseExists()
InitChecked ==
    /\ initTask.pc = "check"
    /\ IF CheckDatabaseExists
       THEN /\ loadingState' = "loading"
            /\ initTask' = [initTask EXCEPT !.pc = "ri_settings"]
            /\ UNCHANGED dbMissing
       ELSE /\ dbMissing' = TRUE
            /\ loadingState' = "idle"
            /\ initTask' = IdleInit
    /\ UNCHANGED <<dbVars, storage, dbReady, importing, authors, resultVars, prefVars>>
    /\ UNCHANGED <<searchTerm, selectedAuthor, currentView, librarySubView, currentPage>>
    /\ UNCHANGED <<timer, fetchTask, hist, lastFetch, budget>>
    /\ UNCHANGED <<readerVars, connVars, storageFails, lastPersist>>

\* Reload Library, Try Again, Refresh Library: onPress={runFullInit}
PressRunFullInit ==
    /\ MainScreen /\ User
    /\ initTask.pc = "idle"
    /\ loadingState' = "loading"
    /\ initTask' = [pc |-> "ri_settings", origin |-> "button", picked |-> "none"]
    /\ UNCHANGED <<dbVars, storage, readyVars, resultVars, prefVars>>
    /\ UNCHANGED <<searchTerm, selectedAuthor, currentView, librarySubView, currentPage>>
    /\ UNCHANGED <<timer, fetchTask, hist, lastFetch>>
    /\ UNCHANGED <<readerVars, connVars, storageFails, lastPersist>>

InitStepSettings ==
    /\ initTask.pc = "ri_settings"
    /\ initTask' = [initTask EXCEPT !.pc = "ri_favorites"]
    /\ RunFullInitSettings(0)
    /\ UNCHANGED <<importing, fetchTask, lastFetch, budget>>
    /\ UNCHANGED <<readerVars, connVars, storageFails>>

InitStepFavorites ==
    /\ initTask.pc = "ri_favorites"
    /\ initTask' = [initTask EXCEPT !.pc = "ri_bookmarks"]
    /\ RunFullInitFavorites(0)
    /\ UNCHANGED <<importing, fetchTask, lastFetch, budget>>
    /\ UNCHANGED <<readerVars, connVars, storageFails>>

InitStepBookmarks ==
    /\ initTask.pc = "ri_bookmarks"
    /\ initTask' = [initTask EXCEPT !.pc = "ri_authors"]
    /\ RunFullInitBookmarks(0)
    /\ UNCHANGED <<importing, fetchTask, lastFetch, budget>>
    /\ UNCHANGED <<readerVars, connVars, storageFails>>

\* runFullInit ends in init (its catch logs), in a button's onPress (nobody
\* awaits it) or in handleImport (catch logs, finally setImporting(false))
InitStepAuthors ==
    /\ initTask.pc = "ri_authors"
    /\ initTask' = IdleInit
    /\ RunFullInitAuthors(StatementError(NoSuchTableBooks) # "", loadingState)
    /\ importing' = IF initTask.origin = "import" THEN FALSE ELSE importing
    /\ UNCHANGED <<fetchTask, lastFetch, budget>>
    /\ UNCHANGED <<readerVars, connVars, storageFails>>

PickedFiles == {"library", "empty", "garbage"}

\* Select Database File, Reselect Database: handleImport up to the picker
PressImport ==
    /\ MainScreen \/ (dbMissing /\ ~importing)
    /\ User
    /\ initTask.pc = "idle"
    /\ importing' = TRUE
    /\ initTask' = [pc |-> "picking", origin |-> "import", picked |-> "none"]
    /\ UNCHANGED <<dbVars, storage, dbReady, dbMissing, authors, resultVars, prefVars>>
    /\ UNCHANGED <<searchTerm, selectedAuthor, currentView, librarySubView, currentPage>>
    /\ UNCHANGED <<loadingState, timer, fetchTask, hist, lastFetch>>
    /\ UNCHANGED <<readerVars, connVars, storageFails, lastPersist>>

\* the picker is left without a file: importDatabase returns false
ImportCanceled ==
    /\ initTask.pc = "picking"
    /\ importing' = FALSE
    /\ initTask' = IdleInit
    /\ UNCHANGED <<dbVars, storage, dbReady, dbMissing, authors, resultVars, prefVars>>
    /\ UNCHANGED <<searchTerm, selectedAuthor, currentView, librarySubView, currentPage>>
    /\ UNCHANGED <<loadingState, timer, fetchTask, hist, lastFetch, budget>>
    /\ UNCHANGED <<readerVars, connVars, storageFails, lastPersist>>

\* a file is picked: closeDatabaseConnection() calls closeAsync on the handle
\* when there is one
ImportPicked(file) ==
    /\ initTask.pc = "picking"
    /\ IF dbInstance = "null"
       THEN /\ initTask' = [initTask EXCEPT !.pc = "copying", !.picked = file]
            /\ UNCHANGED dbInstance
       ELSE /\ initTask' = [initTask EXCEPT !.pc = "closing", !.picked = file]
            /\ dbInstance' = "closing"
    /\ UNCHANGED <<booksTable, chaptersTable, tablesExist, fileExists, fileValid, call>>
    /\ UNCHANGED <<storage, readyVars, resultVars, prefVars>>
    /\ UNCHANGED <<searchTerm, selectedAuthor, currentView, librarySubView, currentPage>>
    /\ UNCHANGED <<loadingState, timer, fetchTask, hist, lastFetch, budget>>
    /\ UNCHANGED <<readerVars, connVars, storageFails, lastPersist>>

\* closeAsync has returned: _dbInstance = null, then makeDirectoryAsync and
\* copyAsync are called
ImportClosed ==
    /\ initTask.pc = "closing"
    /\ dbInstance' = "null"
    /\ initTask' = [initTask EXCEPT !.pc = "copying"]
    /\ UNCHANGED <<booksTable, chaptersTable, tablesExist, fileExists, fileValid, call>>
    /\ UNCHANGED <<storage, readyVars, resultVars, prefVars>>
    /\ UNCHANGED <<searchTerm, selectedAuthor, currentView, librarySubView, currentPage>>
    /\ UNCHANGED <<loadingState, timer, fetchTask, hist, lastFetch, budget>>
    /\ UNCHANGED <<readerVars, connVars, storageFails, lastPersist>>

\* copyAsync has returned: the picked file is books.db; importDatabase returns
\* true and handleImport calls runFullInit
ImportCopied ==
    /\ initTask.pc = "copying"
    /\ fileExists' = TRUE
    /\ fileValid' = (initTask.picked # "garbage")
    /\ tablesExist' = (initTask.picked = "library")
    /\ loadingState' = "loading"
    /\ initTask' = [initTask EXCEPT !.pc = "ri_settings"]
    /\ UNCHANGED <<booksTable, chaptersTable, dbInstance, call>>
    /\ UNCHANGED <<storage, readyVars, resultVars, prefVars>>
    /\ UNCHANGED <<searchTerm, selectedAuthor, currentView, librarySubView, currentPage>>
    /\ UNCHANGED <<timer, fetchTask, hist, lastFetch, budget>>
    /\ UNCHANGED <<readerVars, connVars, storageFails, lastPersist>>

-----------------------------------------------------------------------------
(* App.tsx: the callback of the fetch effect's timer *)

Slots == 1..MaxInFlight

\* filters that carry the favorites as ids in every view
FetchParamsIdsInEveryView(c) ==
    [page |-> Some(c.page),
     limit |-> Some(PageSize),
     search |-> Some(c.search),
     title |-> None,
     author |-> IF c.view = "author_detail" /\ TruthyStr(c.author) THEN c.author
                ELSE None,
     random |-> IF c.view = "home" THEN Some(TRUE) ELSE None,
     ids |-> IF c.view = "bookmarks" THEN Some(BookmarkKeys(c.bookmarks))
             ELSE Some(c.favorites)]

\* the filters the callback builds from the state its closure holds
FetchParams(c) ==
    [page |-> Some(c.page),
     limit |-> Some(PageSize),
     search |-> Some(c.search),
     title |-> None,
     author |-> IF c.view = "author_detail" /\ TruthyStr(c.author) THEN c.author
                ELSE None,
     random |-> IF c.view = "home" THEN Some(TRUE) ELSE None,
     ids |-> IF c.view = "bookmarks" THEN Some(BookmarkKeys(c.bookmarks))
             ELSE IF c.view = "favorites" THEN Some(c.favorites)
             ELSE None]

\* favorites.length === 0 in the favorites view, no key in the bookmarks view
EmptyIdSet(c) ==
    \/ c.view = "favorites" /\ Len(c.favorites) = 0
    \/ c.view = "bookmarks" /\ Len(BookmarkKeys(c.bookmarks)) = 0

FreeSlot(slot) ==
    /\ fetchTask[slot].pc = "idle"
    /\ \A other \in Slots : other < slot => fetchTask[other].pc # "idle"

\* the timer fires: the callback runs up to its return or to await getAllBooks
TimerFires(slot) ==
    /\ timer.pending
    /\ FreeSlot(slot)
    /\ timer' = NoTimer
    /\ IF EmptyIdSet(timer)
       THEN /\ books' = <<>>
            /\ totalPages' = 1
            /\ loadingState' = "success"
            /\ lastFetch' = [kind |-> "empty", loadingState |-> "success"]
            /\ UNCHANGED fetchTask
       ELSE /\ fetchTask' = [fetchTask EXCEPT ![slot] =
                                [pc |-> "query", params |-> FetchParams(timer),
                                 chain |-> timer.chain]]
            /\ UNCHANGED <<books, totalPages, loadingState, lastFetch>>
    /\ UNCHANGED <<dbVars, storage, readyVars, prefVars, initTask, hist, budget>>
    /\ UNCHANGED <<searchTerm, selectedAuthor, currentView, librarySubView, currentPage>>
    /\ UNCHANGED <<readerVars, connVars, storageFails, lastPersist>>

\* getAllBooks returns: setBooks, setTotalPages, setLoadingState('success')
QueryReturns(slot) ==
    /\ fetchTask[slot].pc = "query"
    /\ StatementError(NoSuchTableBooks) = ""
    /\ AppGetDb
    /\ \E ordered \in DataOrders(booksTable, fetchTask[slot].params) :
           LET response == GetAllBooksResponse(booksTable, fetchTask[slot].params, ordered)
           IN  /\ books' = response.data
               /\ totalPages' = response.pagination.totalPages
    /\ loadingState' = "success"
    /\ lastFetch' = [kind |-> "success", loadingState |-> "success"]
    /\ fetchTask' = [fetchTask EXCEPT ![slot] = IdleFetch]
    /\ UNCHANGED <<storage, readyVars, prefVars, initTask, hist, budget, timer>>
    /\ UNCHANGED <<searchTerm, selectedAuthor, currentView, librarySubView, currentPage>>
    /\ UNCHANGED <<readerVars, connVars, storageFails, lastPersist>>

\* getAllBooks throws: the catch branch; on a connection issue it calls
\* runFullInit, which sets 'loading' and awaits getItem, otherwise
\* setLoadingState('error')
QueryThrows(slot) ==
    /\ fetchTask[slot].pc = "query"
    /\ StatementError(NoSuchTableBooks) # ""
    /\ AppGetDb
    /\ IF IsConnectionIssue(StatementError(NoSuchTableBooks))
       THEN /\ loadingState' = "loading"
            /\ fetchTask' = [fetchTask EXCEPT ![slot].pc = "ri_settings"]
            /\ UNCHANGED lastFetch
       ELSE /\ loadingState' = "error"
            /\ fetchTask' = [fetchTask EXCEPT ![slot] = IdleFetch]
            /\ lastFetch' = [kind |-> "error", loadingState |-> "error"]
    /\ UNCHANGED <<storage, readyVars, prefVars, resultVars, initTask, hist, budget, timer>>
    /\ UNCHANGED <<searchTerm, selectedAuthor, currentView, librarySubView, currentPage>>
    /\ UNCHANGED <<readerVars, connVars, storageFails, lastPersist>>

\* the count of re-inits behind a fetch that a state change of this
\* callback's runFullInit schedules
NextChain(slot) == Min(fetchTask[slot].chain + 1, MaxChain)

FetchStepSettings(slot) ==
    /\ fetchTask[slot].pc = "ri_settings"
    /\ fetchTask' = [fetchTask EXCEPT ![slot].pc = "ri_favorites"]
    /\ RunFullInitSettings(NextChain(slot))
    /\ UNCHANGED <<importing, initTask, lastFetch, budget>>
    /\ UNCHANGED <<readerVars, connVars, storageFails>>

FetchStepFavorites(slot) ==
    /\ fetchTask[slot].pc = "ri_favorites"
    /\ fetchTask' = [fetchTask EXCEPT ![slot].pc = "ri_bookmarks"]
    /\ RunFullInitFavorites(NextChain(slot))
    /\ UNCHANGED <<importing, initTask, lastFetch, budget>>
    /\ UNCHANGED <<readerVars, connVars, storageFails>>

FetchStepBookmarks(slot) ==
    /\ fetchTask[slot].pc = "ri_bookmarks"
    /\ fetchTask' = [fetchTask EXCEPT ![slot].pc = "ri_authors"]
    /\ RunFullInitBookmarks(NextChain(slot))
    /\ UNCHANGED <<importing, initTask, lastFetch, budget>>
    /\ UNCHANGED <<readerVars, connVars, storageFails>>

\* runFullInit returns to the catch branch, which goes on to
\* setLoadingState('error'); when runFullInit throws, the callback ends there
FetchStepAuthors(slot) ==
    /\ fetchTask[slot].pc = "ri_authors"
    /\ fetchTask' = [fetchTask EXCEPT ![slot] = IdleFetch]
    /\ RunFullInitAuthors(StatementError(NoSuchTableBooks) # "", "error")
    /\ lastFetch' = [kind |-> IF StatementError(NoSuchTableBooks) # "" THEN "reinit threw"
                              ELSE "reinit done",
                     loadingState |-> loadingState']
    /\ UNCHANGED <<importing, initTask, budget>>
    /\ UNCHANGED <<readerVars, connVars, storageFails>>

-----------------------------------------------------------------------------
(* The application *)

\* a database file of the device: none, a library, a database without the
\* tables, a file that is no database
DeviceFiles ==
    {[exists |-> FALSE, valid |-> FALSE, tables |-> FALSE],
     [exists |-> TRUE, valid |-> TRUE, tables |-> TRUE],
     [exists |-> TRUE, valid |-> TRUE, tables |-> FALSE],
     [exists |-> TRUE, valid |-> FALSE, tables |-> FALSE]}

\* App is mounted: the state of its useState calls, init() awaiting
\* checkDatabaseExists()
Init ==
    /\ booksTable = RowsOf(1..LibrarySize, LibrarySize)
    /\ chaptersTable = LibraryChapters
    /\ \E f \in DeviceFiles :
           fileExists = f.exists /\ fileValid = f.valid /\ tablesExist = f.tables
    /\ dbInstance = "null"
    /\ call = NoCall
    /\ storage \in {EmptyStorage, SavedStorage}
    /\ dbReady = FALSE /\ dbMissing = FALSE /\ importing = FALSE
    /\ books = <<>> /\ authors = {} /\ loadingState = "loading" /\ totalPages = 1
    /\ currentView = "home" /\ selectedAuthor = None /\ searchTerm = <<>>
    /\ currentPage = 1 /\ librarySubView = "books"
    /\ favorites = <<>> /\ bookmarks = NoBookmarks /\ settings = DefaultSettings
    /\ timer = NoTimer
    /\ fetchTask = [i \in Slots |-> IdleFetch]
    /\ initTask = [pc |-> "check", origin |-> "mount", picked |-> "none"]
    /\ hist = NoHist
    /\ lastFetch = NoFetchYet
    /\ budget = MaxUserActions
    /\ ReaderClosed
    /\ WritesSucceed
    /\ ConnIdle

Next ==
    \/ InitChecked
    \/ InitStepSettings
    \/ InitStepFavorites
    \/ InitStepBookmarks
    \/ InitStepAuthors
    \/ PressRunFullInit
    \/ PressImport
    \/ ImportCanceled
    \/ \E file \in PickedFiles : ImportPicked(file)
    \/ ImportClosed
    \/ ImportCopied
    \/ \E t \in SearchTerms : SetSearchTerm(t)
    \/ \E view \in {"home", "favorites", "bookmarks"} : Navigate(view)
    \/ NavigateLibrary
    \/ \E a \in AuthorNames(booksTable) : SelectAuthor(a)
    \/ BackFromAuthor
    \/ \E v \in {"books", "authors"} : SetLibrarySubView(v)
    \/ \E bookId \in ToggleIds : ToggleFavorite(bookId)
    \/ \E bookId \in ToggleIds, chapterIndex \in ChapterIdxs :
           ToggleBookmark(bookId, chapterIndex)
    \/ \E slot \in Slots : TimerFires(slot)
    \/ \E slot \in Slots : QueryReturns(slot)
    \/ \E slot \in Slots : QueryThrows(slot)
    \/ \E slot \in Slots : FetchStepSettings(slot)
    \/ \E slot \in Slots : FetchStepFavorites(slot)
    \/ \E slot \in Slots : FetchStepBookmarks(slot)
    \/ \E slot \in Slots : FetchStepAuthors(slot)

Spec == Init /\ [][Next]_vars

-----------------------------------------------------------------------------
(* App.tsx: handleBookSelect and the Reader *)

screenVars ==
    <<dbReady, dbMissing, importing, books, authors, loadingState, totalPages,
      currentView, selectedAuthor, searchTerm, currentPage, librarySubView>>

taskVars == <<timer, fetchTask, initTask, hist, lastFetch>>

\* bookmarks[bookId]: None for undefined
BookmarkOf(marks, bookId) == IF bookId \in DOMAIN marks THEN marks[bookId] ELSE None

\* savedChapter !== undefined ? savedChapter : 0
StartIndex(savedChapter) == IF IsSome(savedChapter) THEN Val(savedChapter) ELSE 0

\* the prop of the Reader: bookmarks[selectedBook.book_id] === currentChapterIdx
IsBookmarked(marks, book, chapterIdx) ==
    BookmarkOf(marks, Val(book).book_id) = Some(chapterIdx)

SelectSlots == 1..MaxSelects

FreeSelect(slot) ==
    /\ selectTask[slot].pc = "idle"
    /\ \A other \in SelectSlots : other < slot => selectTask[other].pc # "idle"

\* a book card of the library screen is pressed: handleBookSelect(book) up to
\* await getChaptersByBookId; the callback holds the bookmarks of this render
HandleBookSelect(book, slot) ==
    /\ MainScreen /\ User
    /\ selectedBook = None
    /\ ~(currentView = "all-books" /\ librarySubView = "authors")
    /\ \E i \in 1..Len(books) : books[i] = book
    /\ FreeSelect(slot)
    /\ selectedBook' = Some(book)
    /\ loadingChapters' = TRUE
    /\ selectTask' = [selectTask EXCEPT ![slot] =
                         [pc |-> "query", book |-> Some(book), bookmarks |-> bookmarks]]
    /\ UNCHANGED <<currentChapterIdx, chapters, lastSelect>>
    /\ UNCHANGED <<dbVars, storage, screenVars, prefVars, taskVars>>
    /\ UNCHANGED <<connVars, storageFails, lastPersist>>

\* getChaptersByBookId returns: setChapters, setCurrentChapterIdx from the
\* bookmarks the callback holds, finally setLoadingChapters(false)
SelectReturns(slot) ==
    LET bookId == Val(selectTask[slot].book).book_id
        savedChapter == BookmarkOf(selectTask[slot].bookmarks, bookId)
    IN  /\ selectTask[slot].pc = "query"
        /\ StatementError(NoSuchTableChapters) = ""
        /\ AppGetDb
        /\ \E ordered \in ChapterOrders(chaptersTable, bookId) :
               chapters' = GetChaptersResponse(ordered)
        /\ currentChapterIdx' = StartIndex(savedChapter)
        /\ loadingChapters' = FALSE
        /\ selectTask' = [selectTask EXCEPT ![slot] = IdleSelect]
        /\ lastSelect' = [kind |-> "done", book |-> bookId,
                          idx |-> StartIndex(savedChapter),
                          saved |-> BookmarkOf(bookmarks, bookId)]
        /\ UNCHANGED <<selectedBook, storage, screenVars, prefVars, taskVars, budget>>
        /\ UNCHANGED <<connVars, storageFails, lastPersist>>

\* getChaptersByBookId throws: the catch logs, finally setLoadingChapters(false)
SelectThrows(slot) ==
    /\ selectTask[slot].pc = "query"
    /\ StatementError(NoSuchTableChapters) # ""
    /\ AppGetDb
    /\ loadingChapters' = FALSE
    /\ selectTask' = [selectTask EXCEPT ![slot] = IdleSelect]
    /\ lastSelect' = [kind |-> "failed", book |-> Val(selectTask[slot].book).book_id,
                      idx |-> currentChapterIdx, saved |-> None]
    /\ UNCHANGED <<selectedBook, currentChapterIdx, chapters>>
    /\ UNCHANGED <<storage, screenVars, prefVars, taskVars, budget>>
    /\ UNCHANGED <<connVars, storageFails, lastPersist>>

\* the Reader shows a chapter, and with it its header and its navigation
ReaderShowsChapter ==
    /\ MainScreen
    /\ IsSome(selectedBook)
    /\ ~loadingChapters
    /\ currentChapterIdx < Len(chapters)

\* the back button of the Reader or of the device: onClose
OnClose ==
    /\ MainScreen /\ User
    /\ IsSome(selectedBook)
    /\ selectedBook' = None
    /\ UNCHANGED <<currentChapterIdx, chapters, loadingChapters, selectTask, lastSelect>>
    /\ UNCHANGED <<dbVars, storage, screenVars, prefVars, taskVars>>
    /\ UNCHANGED <<connVars, storageFails, lastPersist>>

\* a Next button that is never disabled
HasNextAlways == TRUE

\* const hasPrev = currentChapterIndex > 0
HasPrev == currentChapterIdx > 0

\* const hasNext = currentChapterIndex < chapters.length - 1
HasNext == currentChapterIdx < Len(chapters) - 1

\* the indexes the Reader passes to onNavigate: Prev and Next unless
\* disabled, and the index of every entry of the table of contents
NavigableIndexes ==
    {i \in {currentChapterIdx - 1} : HasPrev}
        \cup {i \in {currentChapterIdx + 1} : HasNext}
        \cup {i - 1 : i \in DOMAIN chapters}

\* Prev, Next or an entry of the table of contents: onNavigate(index)
OnNavigate(index) ==
    /\ ReaderShowsChapter /\ User
    /\ index \in NavigableIndexes
    /\ index # currentChapterIdx
    /\ currentChapterIdx' = index
    /\ UNCHANGED <<selectedBook, chapters, loadingChapters, selectTask, lastSelect>>
    /\ UNCHANGED <<dbVars, storage, screenVars, prefVars, taskVars>>
    /\ UNCHANGED <<connVars, storageFails, lastPersist>>

\* the bookmark button of the Reader:
\* toggleBookmark(selectedBook.book_id, currentChapterIdx)
OnToggleBookmark ==
    /\ ReaderShowsChapter
    /\ Val(selectedBook).book_id \in ToggleIds
    /\ ToggleBookmark(Val(selectedBook).book_id, currentChapterIdx)

Themes == {"light", "sepia", "dark", "navy"}

\* a theme of the Reader's settings panel:
\* onSettingsChange({ ...settings, theme: t })
OnSettingsChange(theme) ==
    /\ ReaderShowsChapter /\ User
    /\ theme # settings.theme
    /\ settings' = [settings EXCEPT !.theme = theme]
    /\ UNCHANGED <<favorites, bookmarks, hist>>
    /\ UNCHANGED <<searchTerm, selectedAuthor, currentView, librarySubView>>
    /\ UNCHANGED <<dbVars, readyVars, resultVars, fetchTask, initTask, lastFetch>>
    /\ UNCHANGED <<readerVars, connVars, storageFails>>
    /\ Render(FALSE, TRUE, FALSE, currentPage, loadingState, 0)

\* the heart of a book card while the library screen is shown
LibraryToggleFavorite(bookId) ==
    /\ selectedBook = None
    /\ ToggleFavorite(bookId)

\* the books of the library as the library screen lists them
LibraryBooks == [i \in 1..Len(booksTable) |-> ToBook(booksTable[i])]

BookmarkMaps == [ToggleIds -> {None} \cup {Some(i) : i \in ChapterIdxs}]

\* The library is ready and its screen lists the books: the preferences were
\* loaded from AsyncStorage, which holds what the persist effect wrote.
ReadyLibrary ==
    /\ booksTable = RowsOf(1..LibrarySize, LibrarySize)
    /\ chaptersTable = LibraryChapters
    /\ fileExists = TRUE /\ fileValid = TRUE
    /\ dbInstance = "open"
    /\ call = NoCall
    /\ settings = DefaultSettings
    /\ storage = Persisted(favorites, bookmarks, settings)
    /\ dbReady = TRUE /\ dbMissing = FALSE /\ importing = FALSE
    /\ books = LibraryBooks
    /\ authors = GetAllAuthorsResponse(booksTable)
    /\ loadingState = "success"
    /\ selectedAuthor = None /\ searchTerm = <<>>
    /\ librarySubView = "books"
    /\ timer = NoTimer
    /\ fetchTask = [i \in Slots |-> IdleFetch]
    /\ initTask = IdleInit
    /\ hist = NoHist
    /\ lastFetch = [kind |-> "success", loadingState |-> "success"]
    /\ ReaderClosed
    /\ lastPersist = "skipped"
    /\ ConnIdle

\* the library screen with any bookmarks; the tables may have gone with a
\* database file imported since the books were listed
InitReader ==
    /\ bookmarks \in BookmarkMaps
    /\ favorites = <<>>
    /\ ReadyLibrary
    /\ tablesExist \in BOOLEAN
    /\ currentView = "all-books"
    /\ currentPage = 1 /\ totalPages = 1
    /\ storageFails = {}
    /\ budget = MaxReaderActions

NextReader ==
    \/ \E i \in 1..Len(books), slot \in SelectSlots : HandleBookSelect(books[i], slot)
    \/ \E slot \in SelectSlots : SelectReturns(slot)
    \/ \E slot \in SelectSlots : SelectThrows(slot)
    \/ OnClose
    \/ \E index \in -1..(MaxChapterIdx + 1) : OnNavigate(index)
    \/ OnToggleBookmark

SpecReader == InitReader /\ [][NextReader]_vars

-----------------------------------------------------------------------------
(* App.tsx: the persist effect with setItem calls that may be rejected *)

InitPersist ==
    /\ bookmarks \in BookmarkMaps
    /\ favorites \in {<<>>, <<1>>}
    /\ ReadyLibrary
    /\ tablesExist = TRUE
    /\ currentView = "all-books"
    /\ currentPage = 1 /\ totalPages = 1
    /\ storageFails \in SUBSET StorageKeys
    /\ budget = MaxPersistActions

NextPersist ==
    \/ \E i \in 1..Len(books), slot \in SelectSlots : HandleBookSelect(books[i], slot)
    \/ \E slot \in SelectSlots : SelectReturns(slot)
    \/ OnClose
    \/ OnToggleBookmark
    \/ \E theme \in Themes : OnSettingsChange(theme)
    \/ \E bookId \in ToggleIds : LibraryToggleFavorite(bookId)

SpecPersist == InitPersist /\ [][NextPersist]_vars

-----------------------------------------------------------------------------
(* db/database.ts: getDb and closeDatabaseConnection, await by await *)

\* what getDb and closeDatabaseConnection leave alone
notConnVars ==
    <<booksTable, chaptersTable, tablesExist, fileExists, fileValid, call,
      storage, dbReady, dbMissing, importing, books, authors, loadingState,
      totalPages, currentView, selectedAuthor, searchTerm, currentPage,
      librarySubView, favorites, bookmarks, settings, timer, fetchTask, initTask,
      readerVars, storageFails, lastPersist, hist, lastFetch, budget>>

\* the callers of getDb: getAllAuthors (runFullInit), getAllBooks (the fetch
\* effect), getChaptersByBookId (handleBookSelect)
Callers == 1..MaxCallers

\* the connections opened or being opened, and not closed
ConnectionsBegun ==
    openConnections + Cardinality({c \in Callers : connTask.caller[c] = "opening"})

\* getDb up to its await: the handle is returned when there is one, else
\* openDatabaseAsync is called
GetDbEnters(c) ==
    /\ connTask.caller[c] = "idle"
    /\ dbInstance = "null" => ConnectionsBegun < MaxConnections
    /\ connTask' = [connTask EXCEPT !.caller[c] =
                        IF dbInstance = "null" THEN "opening" ELSE "using"]
    /\ UNCHANGED <<dbInstance, openConnections, notConnVars>>

\* openDatabaseAsync has returned: _dbInstance = the new connection
OpenReturns(c) ==
    /\ connTask.caller[c] = "opening"
    /\ dbInstance' = "open"
    /\ openConnections' = openConnections + 1
    /\ connTask' = [connTask EXCEPT !.caller[c] = "using"]
    /\ UNCHANGED notConnVars

\* the caller's query on the handle has ended
QueryEnds(c) ==
    /\ connTask.caller[c] = "using"
    /\ connTask' = [connTask EXCEPT !.caller[c] = "idle"]
    /\ UNCHANGED <<dbInstance, openConnections, notConnVars>>

\* closeDatabaseConnection up to its await: closeAsync is called on the
\* handle when there is one
CloseEnters ==
    /\ connTask.closer = "idle"
    /\ dbInstance # "null"
    /\ dbInstance' = "closing"
    /\ connTask' = [connTask EXCEPT !.closer = "closing"]
    /\ UNCHANGED <<openConnections, notConnVars>>

\* closeAsync has returned: the connection it was called on is closed,
\* _dbInstance = null
CloseReturns ==
    /\ connTask.closer = "closing"
    /\ openConnections' = openConnections - 1
    /\ dbInstance' = "null"
    /\ connTask' = [connTask EXCEPT !.closer = "idle"]
    /\ UNCHANGED notConnVars

\* the module as loaded: no handle, no connection
InitConn ==
    /\ AppNotStarted
    /\ booksTable = RowsOf(1..LibrarySize, LibrarySize)
    /\ chaptersTable = LibraryChapters
    /\ tablesExist = TRUE
    /\ dbInstance = "null"
    /\ call = NoCall

NextConn ==
    \/ \E c \in Callers : GetDbEnters(c)
    \/ \E c \in Callers : OpenReturns(c)
    \/ \E c \in Callers : QueryEnds(c)
    \/ CloseEnters
    \/ CloseReturns

SpecConn == InitConn /\ [][NextConn]_vars

-----------------------------------------------------------------------------
(* App.tsx: the library screen of a library of more than one page *)

PagedLibrarySize == PageSize + MaxExtraBooks

\* the state a timer's closure holds, for the page and filters given
ClosureOf(page, search, view, author) ==
    [NoTimer EXCEPT !.page = page, !.search = search, !.view = view,
                    !.author = author, !.favorites = favorites,
                    !.bookmarks = bookmarks]

\* the button <-: setCurrentPage(p => p - 1)
PrevPage ==
    /\ MainScreen /\ User
    /\ selectedBook = None
    /\ totalPages > 1
    /\ currentView # "all-books" \/ librarySubView = "books"
    /\ currentPage # 1
    /\ UNCHANGED <<searchTerm, selectedAuthor, currentView, librarySubView>>
    /\ UNCHANGED <<dbVars, readyVars, resultVars, prefVars, fetchTask, initTask, hist,
                   lastFetch>>
    /\ Render(FALSE, FALSE, FALSE, currentPage - 1, loadingState, 0)
    /\ UNCHANGED <<readerVars, connVars, storageFails>>

\* the button ->: setCurrentPage(p => p + 1)
NextPage ==
    /\ MainScreen /\ User
    /\ selectedBook = None
    /\ totalPages > 1
    /\ currentView # "all-books" \/ librarySubView = "books"
    /\ currentPage # totalPages
    /\ UNCHANGED <<searchTerm, selectedAuthor, currentView, librarySubView>>
    /\ UNCHANGED <<dbVars, readyVars, resultVars, prefVars, fetchTask, initTask, hist,
                   lastFetch>>
    /\ Render(FALSE, FALSE, FALSE, currentPage + 1, loadingState, 0)
    /\ UNCHANGED <<readerVars, connVars, storageFails>>

\* every book of the paged library is a favorite
AllFavorites == [i \in 1..PagedLibrarySize |-> i]

\* The tab Library shows a page of a library of PagedLibrarySize books, or
\* the tab Favs a page of the favorites, every book being one.
InitPaging ==
    /\ booksTable = RowsOf(1..PagedLibrarySize, PagedLibrarySize)
    /\ chaptersTable = LibraryChapters
    /\ tablesExist = TRUE /\ fileExists = TRUE /\ fileValid = TRUE
    /\ dbInstance = "open"
    /\ call = NoCall
    /\ favorites \in {<<>>, <<1>>, AllFavorites}
    /\ bookmarks = NoBookmarks
    /\ settings = DefaultSettings
    /\ storage = Persisted(favorites, bookmarks, settings)
    /\ dbReady = TRUE /\ dbMissing = FALSE /\ importing = FALSE
    /\ currentView \in {"all-books", "favorites"}
    /\ currentView = "favorites" => favorites = AllFavorites
    /\ selectedAuthor = None /\ searchTerm = <<>>
    /\ librarySubView \in {"books", "authors"}
    /\ currentView = "favorites" => librarySubView = "books"
    /\ totalPages = CeilDiv(PagedLibrarySize, PageSize)
    /\ currentPage \in 1..totalPages
    /\ books = GetAllBooksResponse(
                   booksTable,
                   FetchParams(ClosureOf(currentPage, <<>>, currentView, None)),
                   booksTable).data
    /\ authors = GetAllAuthorsResponse(booksTable)
    /\ loadingState = "success"
    /\ timer = NoTimer
    /\ fetchTask = [i \in Slots |-> IdleFetch]
    /\ initTask = IdleInit
    /\ hist = NoHist
    /\ lastFetch = [kind |-> "success", loadingState |-> "success"]
    /\ ReaderClosed
    /\ storageFails = {}
    /\ lastPersist = "skipped"
    /\ ConnIdle
    /\ budget = MaxPagingActions

\* the views whose query is ordered by storage order; the heart pressed is
\* that of the last card of the page
NextPaging ==
    \/ \E t \in SearchTerms : SetSearchTerm(t)
    \/ \E view \in {"favorites", "bookmarks"} : Navigate(view)
    \/ NavigateLibrary
    \/ \E v \in {"books", "authors"} : SetLibrarySubView(v)
    \/ \E a \in AuthorNames(booksTable) : SelectAuthor(a)
    \/ Len(books) > 0 /\ LibraryToggleFavorite(books[Len(books)].book_id)
    \/ PrevPage
    \/ NextPage
    \/ \E slot \in Slots : TimerFires(slot)
    \/ \E slot \in Slots : QueryReturns(slot)

SpecPaging == InitPaging /\ [][NextPaging]_vars

-----------------------------------------------------------------------------
(* The application with every timer firing and every awaited call ending *)

\* the timer fires; getAllBooks and the calls of the callback's runFullInit
\* return or throw
FetchProgress ==
    \E slot \in Slots :
        \/ TimerFires(slot)
        \/ QueryReturns(slot)
        \/ QueryThrows(slot)
        \/ FetchStepSettings(slot)
        \/ FetchStepFavorites(slot)
        \/ FetchStepBookmarks(slot)
        \/ FetchStepAuthors(slot)

\* the calls init, runFullInit and importDatabase await return or throw
InitProgress ==
    \/ InitChecked
    \/ InitStepSettings
    \/ InitStepFavorites
    \/ InitStepBookmarks
    \/ InitStepAuthors
    \/ ImportCanceled
    \/ \E file \in PickedFiles : ImportPicked(file)
    \/ ImportClosed
    \/ ImportCopied

SpecLive == Init /\ [][Next]_vars /\ WF_vars(FetchProgress) /\ WF_vars(InitProgress)

-----------------------------------------------------------------------------
(* App.tsx: the filters of the timer callback, view by view *)

\* a library of more than one page with a book that names no author
LibraryWithNamelessAuthor ==
    Append(RowsOf(1..PagedLibrarySize, PagedLibrarySize),
           [book_id |-> PagedLibrarySize + 1, title |-> <<"b">>, author |-> <<>>])

\* the favorites the views are entered with
FavoriteLists == {<<>>, <<1>>, <<2, 1>>}

\* A view of the library with the timer of its fetch effect pending: the
\* selected author is one of the author list, kept when the author's page is
\* left; a page beyond the first is one of a result of more than one page.
InitFilters ==
    /\ booksTable = LibraryWithNamelessAuthor
    /\ chaptersTable = LibraryChapters
    /\ tablesExist = TRUE /\ fileExists = TRUE /\ fileValid = TRUE
    /\ dbInstance = "open"
    /\ call = NoCall
    /\ favorites \in FavoriteLists
    /\ bookmarks \in BookmarkMaps
    /\ settings = DefaultSettings
    /\ storage = Persisted(favorites, bookmarks, settings)
    /\ dbReady = TRUE /\ dbMissing = FALSE /\ importing = FALSE
    /\ currentView \in Views
    /\ selectedAuthor \in {None} \cup {Some(a) : a \in AuthorNames(booksTable)}
    /\ currentView = "author_detail" => selectedAuthor # None
    /\ searchTerm \in SearchTerms
    /\ librarySubView = "books"
    /\ totalPages = CeilDiv(Len(booksTable), PageSize)
    /\ currentPage \in 1..totalPages
    /\ currentPage > 1 => currentView \in {"home", "all-books"} /\ searchTerm = <<>>
    /\ books = GetAllBooksResponse(
                   booksTable,
                   FetchParams(ClosureOf(1, <<>>, "all-books", None)),
                   booksTable).data
    /\ authors = GetAllAuthorsResponse(booksTable)
    /\ loadingState = "loading"
    /\ timer = [ClosureOf(currentPage, searchTerm, currentView, selectedAuthor)
                    EXCEPT !.pending = TRUE]
    /\ fetchTask = [i \in Slots |-> IdleFetch]
    /\ initTask = IdleInit
    /\ hist = NoHist
    /\ lastFetch = [kind |-> "success", loadingState |-> "success"]
    /\ ReaderClosed
    /\ storageFails = {}
    /\ lastPersist = "skipped"
    /\ ConnIdle
    /\ budget = 0

NextFilters == \E slot \in Slots : TimerFires(slot)

SpecFilters == InitFilters /\ [][NextFilters]_vars

-----------------------------------------------------------------------------
(* Properties of the application *)

\* the last two user actions were toggleBookmark(hist.id, hist.idx) on the
\* map hist.before, and nothing else has set the bookmarks since
DoubleBookmarkToggle == hist.kind = "bookmark" /\ hist.count = 2

\* C2: after toggleBookmark(b, i); toggleBookmark(b, i) there is no bookmark
\* for b, whatever the bookmark map was before (b unmarked, marked at i or
\* marked at another index).
C2_DoubleToggleClears ==
    DoubleBookmarkToggle => bookmarks[hist.id] = None

\* C2 amended: after toggleBookmark(b, i); toggleBookmark(b, i) there is no
\* bookmark for b when b was unmarked or marked at an index other than i
\* before; when b was marked at i before, it is marked at i again. The
\* bookmarks of the other books are as before.
C2_DoubleToggleClearsUnlessMarkedThere ==
    DoubleBookmarkToggle =>
        /\ bookmarks[hist.id] = IF hist.before[hist.id] = Some(hist.idx)
                                THEN Some(hist.idx)
                                ELSE None
        /\ \A b \in ToggleIds \ {hist.id} : bookmarks[b] = hist.before[b]

\* a book without a bookmark is toggled twice at one chapter
C2_Witness ==
    /\ DoubleBookmarkToggle
    /\ hist.before[hist.id] = None
    /\ bookmarks[hist.id] = None

\* a timer callback's runFullInit has set state that ran the fetch effect,
\* and the fetch of that run is scheduled or under way
RefetchBehindReinit ==
    \/ timer.pending /\ timer.chain > 0
    \/ \E slot \in Slots : fetchTask[slot].pc # "idle" /\ fetchTask[slot].chain > 0

\* C3: a fetch that fails with 'no such table' or 'database is closed' calls
\* runFullInit once, and that failure causes no further automatic fetch or
\* re-init: the preferences runFullInit sets do not run the fetch effect
\* again.
C3_FailureCausesNoFurtherFetch == ~RefetchBehindReinit

\* C4: when the runFullInit called after a failed fetch throws, the callback
\* has set loadingState to 'error'; it is not left at 'loading'.
C4_FailedReinitSetsError ==
    lastFetch.kind = "reinit threw" => lastFetch.loadingState = "error"

\* C10: toggleFavorite(id) adds id when it is absent and removes it when it is
\* present, leaving the membership of every other id alone, and
\* toggleFavorite(id) twice restores the membership of every id.
C10_ToggleFavoriteFlipsMembership ==
    hist.kind = "favorite" =>
        LET before == Range(hist.before)
            now == Range(favorites)
        IN  IF hist.count = 1
            THEN /\ (hist.id \in now) = (hist.id \notin before)
                 /\ now \ {hist.id} = before \ {hist.id}
            ELSE now = before

\* a favorite is toggled twice: it is removed and added back
C10_Witness ==
    /\ hist.kind = "favorite" /\ hist.count = 2
    /\ hist.id \in Range(hist.before)
    /\ hist.id \in Range(favorites)

\* C11: when handleBookSelect(book) completes successfully, currentChapterIdx
\* is the saved bookmark of the book if it has one and 0 otherwise, so that
\* the Reader's isBookmarked is true exactly when the book has a bookmark.
C11_OpensAtSavedBookmark ==
    lastSelect.kind = "done" => lastSelect.idx = StartIndex(lastSelect.saved)

\* C12: toggleBookmark(b, i) removes b's entry when it equals i and sets it
\* to i otherwise, replacing another index; the entry of every other book is
\* as before, and each book has at most one bookmarked chapter index.
C12_ToggleTouchesOneBook ==
    /\ bookmarks \in BookmarkMaps
    /\ (hist.kind = "bookmark" /\ hist.count = 1) =>
           /\ bookmarks[hist.id] = IF hist.before[hist.id] = Some(hist.idx)
                                   THEN None
                                   ELSE Some(hist.idx)
           /\ \A b \in ToggleIds \ {hist.id} : bookmarks[b] = hist.before[b]

\* a bookmark at another chapter is replaced while another book keeps its own
C12_Witness ==
    /\ hist.kind = "bookmark" /\ hist.count = 1
    /\ IsSome(hist.before[hist.id])
    /\ hist.before[hist.id] # Some(hist.idx)
    /\ bookmarks[hist.id] = Some(hist.idx)
    /\ \E b \in ToggleIds \ {hist.id} : IsSome(bookmarks[b])

\* the value AsyncStorage holds for each preference is the value in memory
StoredIsInMemory ==
    /\ storage.favorites = Some(JsonStringify(favorites))
    /\ storage.bookmarks = Some(JsonStringify(bookmarks))
    /\ storage.settings = Some(JsonStringify(settings))

\* the value in memory of each preference is its initial value or the value
\* AsyncStorage holds
LoadedOrInitial ==
    /\ favorites = <<>> \/ storage.favorites = Some(JsonStringify(favorites))
    /\ bookmarks = NoBookmarks \/ storage.bookmarks = Some(JsonStringify(bookmarks))
    /\ settings = DefaultSettings \/ storage.settings = Some(JsonStringify(settings))

\* C13: whenever favorites, bookmarks or settings change in memory, the write
\* of the new value is issued, at any time, also before the database is
\* ready.
C13_EveryChangeIsWritten == lastPersist # "skipped"

\* C13 amended: once the database is ready every change of a preference
\* issues the writes, and the stored value of each key is the value in memory
\* (no setItem being rejected); before it is ready no write is issued, and
\* the preferences change only by being loaded from the storage.
C13_ChangesWhileReadyAreWritten ==
    /\ dbReady => StoredIsInMemory
    /\ lastPersist = "issued" => dbReady
    /\ ~dbReady => LoadedOrInitial

\* a favorite toggled on the library screen has been written
C13_Witness ==
    /\ hist.kind = "favorite"
    /\ lastPersist = "issued"
    /\ favorites # <<>>
    /\ storage.favorites = Some(JsonStringify(favorites))

\* C14: a rejected write of one key does not keep the writes of the other
\* keys from being issued and completing, and changes neither the state in
\* memory nor the loading state.
C14_WritesAreIndependent ==
    lastPersist = "issued" =>
        /\ \A key \in StorageKeys \ storageFails :
               storage[key] = Persisted(favorites, bookmarks, settings)[key]
        /\ hist.kind = "favorite" /\ hist.count = 1 =>
               favorites = ToggledFavorites(hist.before, hist.id)
        /\ hist.kind = "bookmark" /\ hist.count = 1 =>
               bookmarks = ToggledBookmarks(hist.before, hist.id, hist.idx)
        /\ loadingState # "error"

\* the write of the favorites is rejected and the toggled bookmark is stored
C14_Witness ==
    /\ lastPersist = "issued"
    /\ storageFails = {"favorites"}
    /\ hist.kind = "bookmark"
    /\ storage.bookmarks = Some(JsonStringify(bookmarks))
    /\ storage.bookmarks # Some(JsonStringify(hist.before))

\* C15: under any interleaving of the callers of getDb and of
\* closeDatabaseConnection at most one connection is open and not closed.
C15_AtMostOneConnection == openConnections <= 1

\* the 'Setting up library...' screen, which offers no action, with nothing
\* running that could leave it: no init, runFullInit or handleImport, no
\* timer, no timer callback
SettingUpForEver ==
    /\ ~dbReady /\ ~dbMissing
    /\ initTask = IdleInit
    /\ ~timer.pending
    /\ \A i \in Slots : fetchTask[i] = IdleFetch

\* C16: after an error the application shows content or offers a retry or an
\* import; it never ends on the 'Setting up library...' screen (dbReady =
\* false, dbMissing = false) with no user action offered.
C16_NoErrorIsFatal == ~SettingUpForEver

\* the fetch effect has run in the step: 'loading', and a timer whose closure
\* holds the filter parameters of the new state
FetchScheduled ==
    /\ loadingState' = "loading"
    /\ timer'.pending
    /\ timer'.search = searchTerm' /\ timer'.view = currentView'
    /\ timer'.author = selectedAuthor' /\ timer'.page = currentPage'

\* C17: whenever the search term, the current view, the selected author or
\* the library sub-view changes, the controller enters 'loading' and
\* schedules a new fetch; switching the sub-view alone does so too.
C17_FilterChangeSchedulesFetch ==
    [][(\/ searchTerm' # searchTerm
        \/ currentView' # currentView
        \/ selectedAuthor' # selectedAuthor
        \/ librarySubView' # librarySubView) => FetchScheduled]_vars

\* a filter parameter changes in the step
FilterChanged ==
    \/ searchTerm' # searchTerm
    \/ currentView' # currentView
    \/ selectedAuthor' # selectedAuthor
    \/ librarySubView' # librarySubView

\* a timer callback calls getAllBooks in the step
QueryIssued(slot) == fetchTask[slot].pc = "idle" /\ fetchTask'[slot].pc = "query"

\* C18: a change of searchTerm, currentView, selectedAuthor or librarySubView
\* resets currentPage to 1 and leaves no timer with the old page: every
\* query is issued with the page and the search term of the state it is
\* issued in.
C18_FilterChangeResetsPage ==
    [][/\ FilterChanged =>
              /\ currentPage' = 1
              /\ timer'.pending => timer'.page = 1
       /\ \A slot \in Slots :
              QueryIssued(slot) =>
                  /\ fetchTask'[slot].params.page = Some(currentPage)
                  /\ fetchTask'[slot].params.search = Some(searchTerm)]_vars

\* the search term was set while page 2 of the library was shown: the page
\* is 1 and a fetch of page 1 is scheduled
C18_Witness ==
    /\ budget = MaxPagingActions - 1
    /\ searchTerm # <<>>
    /\ Len(books) = MaxExtraBooks
    /\ totalPages = 2
    /\ currentPage = 1
    /\ timer.pending /\ timer.page = 1 /\ timer.search = searchTerm

\* the closure of the timer holds the state as it is
TimerHoldsState ==
    /\ timer.page = currentPage
    /\ timer.search = searchTerm
    /\ timer.view = currentView
    /\ timer.author = selectedAuthor
    /\ timer.favorites = favorites
    /\ timer.bookmarks = bookmarks

\* an input of the fetch effect changes in the step
InputChanged ==
    <<currentPage, searchTerm, currentView, selectedAuthor, favorites, bookmarks>>' #
        <<currentPage, searchTerm, currentView, selectedAuthor, favorites, bookmarks>>

\* the timer callback runs in the step
TimerFired == timer.pending /\ ~timer'.pending

EmptyIdSetParams(c) == [FetchParams(c) EXCEPT !.ids = Some(<<>>)]

\* items and page count are what getAllBooks returns for the parameters
IsStoreResult(items, pages, params) ==
    \E ordered \in DataOrders(booksTable, params) :
        LET response == GetAllBooksResponse(booksTable, params, ordered)
        IN  /\ items = response.data
            /\ pages = response.pagination.totalPages

\* the callback ends without a query: books empty, 'success'
ShortCircuited ==
    /\ books' = <<>>
    /\ loadingState' = "success"
    /\ \A slot \in Slots : ~QueryIssued(slot)

\* C20: in the favorites view with no favorites and in the bookmarks view with
\* no bookmarks the callback sets books to empty and loadingState to
\* 'success' without a query, and the items and the page count are those the
\* store returns for an empty id set.
C20_ShortCircuitIsStoreResult ==
    [][TimerFired /\ EmptyIdSet(timer) =>
           /\ ShortCircuited
           /\ IsStoreResult(books', totalPages', EmptyIdSetParams(timer))]_vars

\* the query of a timer callback that awaits getAllBooks carries the page,
\* the limit 20, the search term, and the author and ids given
QueryCarries(author, ids) ==
    \A slot \in Slots :
        fetchTask[slot].pc = "query" =>
            fetchTask[slot].params =
                [page |-> Some(currentPage),
                 limit |-> Some(20),
                 search |-> Some(searchTerm),
                 title |-> None,
                 author |-> author,
                 random |-> IF currentView = "home" THEN Some(TRUE) ELSE None,
                 ids |-> ids]

\* the ids of the view-to-filter mapping
IdsOfView ==
    IF currentView = "favorites" THEN Some(favorites)
    ELSE IF currentView = "bookmarks"
         THEN Some(SortedSeq({b \in ToggleIds : bookmarks[b] # None}))
         ELSE None

\* C21: the query issued for a view carries the filters of the mapping and no
\* filter of another view: random in home only, author = selectedAuthor in
\* author_detail only, ids = favorites in favorites, ids = the keys of the
\* bookmarks in bookmarks; the search term and currentPage with limit 20 in
\* every view.
C21_QueryCarriesTheMapping ==
    QueryCarries(IF currentView = "author_detail" THEN selectedAuthor ELSE None,
                 IdsOfView)

\* C21 amended: as C21, but author_detail sets author = selectedAuthor only
\* when the selected author is a string that is not empty, and no author
\* filter otherwise.
C21_QueryCarriesTheMappingOfNamedAuthors ==
    QueryCarries(IF currentView = "author_detail" /\ selectedAuthor \notin {None, Some(<<>>)}
                 THEN selectedAuthor ELSE None,
                 IdsOfView)

\* the query of the bookmarks view is issued while an author and favorites
\* are set
C21_Witness ==
    /\ currentView = "bookmarks"
    /\ selectedAuthor \notin {None, Some(<<>>)}
    /\ favorites # <<>>
    /\ \E slot \in Slots :
           /\ fetchTask[slot].pc = "query"
           /\ fetchTask[slot].params.ids # Some(<<>>)

\* the Reader passes an index to onNavigate in the step
Navigated ==
    /\ currentChapterIdx' # currentChapterIdx
    /\ UNCHANGED <<selectedBook, chapters, selectTask>>

\* C22: from an index in [0, chapters.length - 1], Prev, Next and the
\* selections of the table of contents keep currentChapterIndex in
\* [0, chapters.length - 1].
C22_NavigationStaysInRange ==
    [][Navigated /\ currentChapterIdx \in 0..(Len(chapters) - 1) =>
           currentChapterIdx' \in 0..(Len(chapters') - 1)]_vars

\* the Reader was moved from the index the book opened at on to the last
\* chapter
C22_Witness ==
    /\ IsSome(selectedBook) /\ ~loadingChapters
    /\ lastSelect.kind = "done"
    /\ lastSelect.book = Val(selectedBook).book_id
    /\ currentChapterIdx # lastSelect.idx
    /\ currentChapterIdx = Len(chapters) - 1

\* a store call opens the connection in the step
ConnectionOpened == dbInstance = "null" /\ dbInstance' = "open"

\* no store call is running or scheduled
NoStoreCall ==
    /\ ~timer.pending
    /\ \A slot \in Slots : fetchTask[slot] = IdleFetch
    /\ \A slot \in SelectSlots : selectTask[slot] = IdleSelect
    /\ initTask.pc \in {"idle", "picking", "copying"}

\* C23: the connection is opened only when books.db exists in the app's
\* storage; started without the file, the app sets dbMissing and makes no
\* store call until importDatabase has copied a file.
C23_NoFileNoConnection ==
    [][/\ ConnectionOpened => fileExists
       /\ ~fileExists' /\ initTask'.pc # "check" =>
              dbMissing' /\ ~dbReady' /\ dbInstance' = "null" /\ NoStoreCall']_vars

\* started without the file: an imported file was opened by getAllAuthors,
\* which threw
C23_Witness ==
    /\ dbMissing /\ ~dbReady
    /\ fileExists
    /\ dbInstance = "open"
    /\ initTask = IdleInit

\* C24: once the database is ready, loadingState = 'loading' is followed by
\* 'success' or 'error', every timer firing and every store and storage call
\* returning or throwing.
C24_LoadingEnds ==
    (dbReady /\ loadingState = "loading") ~> (loadingState \in {"success", "error"})

\* C25: whenever loadingState is 'success', 1 <= currentPage <=
\* max(1, totalPages), after any page navigation, view change, search and
\* toggle of a favorite or a bookmark.
C25_PageWithinResult ==
    loadingState = "success" => 1 <= currentPage /\ currentPage <= Max(1, totalPages)

\* the query of the slot was issued for filters other than those of the
\* state
Superseded(slot) ==
    /\ fetchTask[slot].pc = "query"
    /\ fetchTask[slot].params #
           FetchParams(ClosureOf(currentPage, searchTerm, currentView, selectedAuthor))

\* getAllBooks returns to the callback of the slot in the step
QueryReturned(slot) == fetchTask[slot].pc = "query" /\ fetchTask'[slot] = IdleFetch

\* C26: the response of a query whose filters are no longer those of the
\* state does not overwrite books, totalPages or loadingState.
C26_SupersededResultIsDropped ==
    [][\A slot \in Slots :
           Superseded(slot) /\ QueryReturned(slot) =>
               UNCHANGED <<books, totalPages, loadingState>>]_vars

\* C27: whenever the Reader is shown with loadingChapters = false, every
\* chapter of the chapters state belongs to the selected book, after any
\* selections and closes, overlapping ones included.
C27_ChaptersAreOfSelectedBook ==
    IsSome(selectedBook) /\ ~loadingChapters =>
        \A i \in DOMAIN chapters : chapters[i].book_id = Val(selectedBook).book_id

\* getDb returns the handle there is to the caller in the step
HandedOut(c) == connTask.caller[c] = "idle" /\ connTask'.caller[c] = "using"

\* C28: getDb never hands out a handle on which closeAsync has started, and
\* no caller runs a statement on a handle while it is being closed.
C28_NoClosingHandleInUse ==
    [][\A c \in Callers :
           /\ HandedOut(c) => dbInstance # "closing"
           /\ dbInstance' = "closing" => connTask'.caller[c] # "using"]_vars

====
